---- MODULE Spec2Model ----
(***************************************************************************)
(* Model of the mortgage scenario comparison calculator                    *)
(* (MortgageComparisonCalculator, src/unnamed/part_000): the two scenario  *)
(* records with their change and blur handlers, the recompute effect, and  *)
(* the amortization engine (calculateMortgage,                             *)
(* generateAmortizationSchedule, calculateComparison).                     *)
(*                                                                         *)
(* JavaScript values.  A field of a scenario holds a JS number or a JS     *)
(* string.  Both are records [k, v]:                                       *)
(*   [k |-> "fin", v |-> n]    a finite number (fixed point, see below)    *)
(*   [k |-> "nan", v |-> 0]    NaN                                         *)
(*   [k |-> "inf", v |-> s]    +Infinity (s = 1) or -Infinity (s = -1)     *)
(*   [k |-> "str", v |-> cs]   a string, cs its sequence of characters     *)
(*                                                                         *)
(* Finite numbers are fixed point.  Quantities a user types or reads       *)
(* (currency, percentages, years) carry two decimals: v counts hundredths  *)
(* (Q2).  Dimensionless factors the engine derives (rate per payment,      *)
(* percent / 100, Math.pow results, quotients of two amounts) carry eight  *)
(* decimals: v counts units of 10^-8 (RS).  Every product and quotient     *)
(* rounds to the nearest unit, as IEEE arithmetic rounds to the nearest    *)
(* double.  TLC's integers are 32 bits wide, so products are formed        *)
(* by MulDivI, which never overflows when the result fits.  Signed zero    *)
(* is not modelled.                                                        *)
(***************************************************************************)
EXTENDS Integers, Sequences, FiniteSets, TLC

VARIABLES scenarioA, scenarioB, comparison, mounted, edits

vars == <<scenarioA, scenarioB, comparison, mounted, edits>>

-----------------------------------------------------------------------------
(* Fixed-point resolution *)

Q2 == 10^2
K  == 10^4
RS == K * K
MaxInt == (2^30 - 1) * 2 + 1

-----------------------------------------------------------------------------
(* Integer helpers *)

Abs(x) == IF x < 0 THEN -x ELSE x

Sgn(x) == IF x < 0 THEN -1 ELSE IF x > 0 THEN 1 ELSE 0

\* a * b / (K*K) rounded to nearest, for a, b >= 0, by splitting both in
\* base K so that no intermediate product exceeds 32 bits.
MulRS(a, b) ==
  LET a1 == a \div K
      a0 == a % K
      b1 == b \div K
      b0 == b % K
      x  == a1 * b0
      y  == a0 * b1
      z  == (a0 * b0 + (RS \div 2)) \div K
  IN  a1 * b1 + (x \div K) + (y \div K) + (((x % K) + (y % K) + z) \div K)

\* [q, r] with a * b = q * c + r and 0 <= r < c, for a, b >= 0 and c > 0,
\* by binary multiplication with reduction modulo c at every step.
RECURSIVE MulDivQR(_, _, _)
MulDivQR(a, b, c) ==
  IF b = 0 THEN [q |-> 0, r |-> 0]
  ELSE LET h  == MulDivQR(a, b \div 2, c)
           d  == IF h.r >= c - h.r
                 THEN [q |-> 2 * h.q + 1, r |-> h.r - (c - h.r)]
                 ELSE [q |-> 2 * h.q, r |-> 2 * h.r]
           qa == a \div c
           ra == a % c
       IN  IF b % 2 = 0 THEN d
           ELSE IF d.r >= c - ra
                THEN [q |-> d.q + qa + 1, r |-> d.r - (c - ra)]
                ELSE [q |-> d.q + qa, r |-> d.r + ra]

\* a * b / c rounded to nearest (ties away from zero), any signs, c # 0.
MulDivI(a, b, c) ==
  LET s  == Sgn(a) * Sgn(b) * Sgn(c)
      aa == Abs(a)
      bb == Abs(b)
      cc == Abs(c)
  IN  IF aa = 0 \/ bb = 0 THEN 0
      ELSE IF aa <= (MaxInt - cc) \div bb
           THEN s * ((aa * bb + (cc \div 2)) \div cc)
      ELSE IF cc = RS THEN s * MulRS(aa, bb)
      ELSE LET h == MulDivQR(aa, bb, cc)
           IN  s * (IF h.r >= cc - h.r THEN h.q + 1 ELSE h.q)

-----------------------------------------------------------------------------
(* JS numbers *)

Fin(n) == [k |-> "fin", v |-> n]
NaN == [k |-> "nan", v |-> 0]
Inf(s) == [k |-> "inf", v |-> s]
Str(cs) == [k |-> "str", v |-> cs]

Zero == Fin(0)
One == Fin(RS)

\* An integer literal or loop counter as a Q2 number.
FromInt(n) == Fin(n * Q2)

IsNaN(a) == a.k = "nan"
IsFin(a) == a.k = "fin"
IsInf(a) == a.k = "inf"

\* Sign of a non-NaN number.
SignOf(a) == IF IsInf(a) THEN a.v ELSE Sgn(a.v)

Neg(a) == IF IsNaN(a) THEN NaN ELSE [a EXCEPT !.v = -a.v]

\* a + b, both of the same resolution.
Add(a, b) ==
  IF IsFin(a) /\ IsFin(b) THEN Fin(a.v + b.v)
  ELSE IF IsNaN(a) \/ IsNaN(b) THEN NaN
  ELSE IF IsInf(a) /\ IsInf(b) THEN (IF a.v = b.v THEN a ELSE NaN)
  ELSE IF IsInf(a) THEN a
  ELSE b

Sub(a, b) ==
  IF IsFin(a) /\ IsFin(b) THEN Fin(a.v - b.v) ELSE Add(a, Neg(b))

\* a * b where b has resolution S; the result has a's resolution.
Mul(a, b, S) ==
  IF IsFin(a) /\ IsFin(b) THEN Fin(MulDivI(a.v, b.v, S))
  ELSE IF IsNaN(a) \/ IsNaN(b) THEN NaN
  ELSE IF SignOf(a) = 0 \/ SignOf(b) = 0 THEN NaN
  ELSE Inf(SignOf(a) * SignOf(b))

\* a / b where b has resolution S; the result has a's resolution.
Div(a, b, S) ==
  IF IsNaN(a) \/ IsNaN(b) THEN NaN
  ELSE IF IsInf(a)
       THEN (IF IsInf(b) THEN NaN
             ELSE Inf(a.v * (IF SignOf(b) < 0 THEN -1 ELSE 1)))
  ELSE IF IsInf(b) THEN Fin(0)
  ELSE IF b.v = 0
       THEN (IF a.v = 0 THEN NaN ELSE Inf(Sgn(a.v)))
  ELSE Fin(MulDivI(a.v, S, b.v))

\* a * n and a / n for an integer literal n.
MulInt(a, n) == Mul(a, Fin(n), 1)
DivInt(a, n) == Div(a, Fin(n), 1)

\* x / 100 for a Q2 percentage x, as an RS factor.
Per100(a) == IF IsFin(a) THEN Fin(a.v * (RS \div (Q2 * 100))) ELSE a

\* a * (x / 100) for a Q2 percentage x; the result has a's resolution.
PercentOf(a, x) == Mul(a, x, 100 * Q2)

\* a <= b and a > b; every comparison with NaN is false.
Le(a, b) ==
  IF IsFin(a) /\ IsFin(b) THEN a.v <= b.v
  ELSE IF IsNaN(a) \/ IsNaN(b) THEN FALSE
  ELSE IF IsInf(a) THEN (a.v = -1 \/ (IsInf(b) /\ b.v = 1))
  ELSE b.v = 1

Gt(a, b) ==
  IF IsFin(a) /\ IsFin(b) THEN a.v > b.v
  ELSE IF IsNaN(a) \/ IsNaN(b) THEN FALSE
  ELSE ~Le(a, b)

\* Math.min(a, b): NaN if either argument is NaN.
Min(a, b) ==
  IF IsNaN(a) \/ IsNaN(b) THEN NaN ELSE IF Le(a, b) THEN a ELSE b

\* Math.round of a Q2 number: nearest integer, halves towards +Infinity.
MathRound(a) ==
  IF IsFin(a) THEN Fin(((a.v + (Q2 \div 2)) \div Q2) * Q2) ELSE a

\* Math.pow(b, n) for an RS base and a non-negative integer n.
RECURSIVE PowI(_, _)
PowI(b, n) ==
  IF n = 0 THEN One
  ELSE LET h == PowI(b, n \div 2)
           s == Mul(h, h, RS)
       IN  IF n % 2 = 0 THEN s ELSE Mul(s, b, RS)

-----------------------------------------------------------------------------
(* JS strings and the conversions between strings and numbers *)

Digits == <<"0", "1", "2", "3", "4", "5", "6", "7", "8", "9">>

IsDigit(c) == \E i \in 1..10 : Digits[i] = c

DigitVal(c) == (CHOOSE i \in 1..10 : Digits[i] = c) - 1

\* value.replace(/^0+(?=\d)/, ''): leading zeros that a digit follows.
RECURSIVE StripLeadingZeros(_)
StripLeadingZeros(cs) ==
  IF Len(cs) >= 2 /\ cs[1] = "0" /\ IsDigit(cs[2])
  THEN StripLeadingZeros(Tail(cs))
  ELSE cs

\* The value of a sequence of digits read as a decimal integer.
RECURSIVE DigitsVal(_)
DigitsVal(cs) ==
  IF cs = <<>> THEN 0
  ELSE DigitsVal(SubSeq(cs, 1, Len(cs) - 1)) * 10 + DigitVal(cs[Len(cs)])

AllDigits(cs) == \A i \in 1..Len(cs) : IsDigit(cs[i])

\* Number(s) of an unsigned decimal literal "ddd" or "ddd.dd", in Q2.
UnsignedVal(cs) ==
  LET dots == {i \in 1..Len(cs) : cs[i] = "."}
  IN  IF dots = {}
      THEN (IF cs # <<>> /\ AllDigits(cs) THEN Fin(DigitsVal(cs) * Q2) ELSE NaN)
      ELSE LET d  == CHOOSE i \in dots : TRUE
               ip == SubSeq(cs, 1, d - 1)
               fp == SubSeq(cs, d + 1, Len(cs))
               f2 == SubSeq(fp \o <<"0", "0">>, 1, 2)
           IN  IF Cardinality(dots) = 1 /\ AllDigits(ip) /\ AllDigits(fp)
                  /\ Len(ip) + Len(fp) > 0
               THEN Fin(DigitsVal(ip) * Q2 + DigitsVal(f2))
               ELSE NaN

\* Number(s) for a string s: '' is 0, a decimal literal its value,
\* anything else NaN.
NumberOfString(cs) ==
  IF cs = <<>> THEN Fin(0)
  ELSE IF cs[1] = "-" THEN Neg(UnsignedVal(Tail(cs)))
  ELSE UnsignedVal(cs)

\* The decimal digits of n >= 0.
RECURSIVE DigitsOf(_)
DigitsOf(n) ==
  IF n < 10 THEN <<Digits[n + 1]>>
  ELSE DigitsOf(n \div 10) \o <<Digits[(n % 10) + 1]>>

\* String(x) for a number x.
StringOfNumber(a) ==
  IF IsNaN(a) THEN <<"N", "a", "N">>
  ELSE IF IsInf(a)
       THEN (IF a.v < 0 THEN <<"-">> ELSE <<>>)
            \o <<"I", "n", "f", "i", "n", "i", "t", "y">>
  ELSE LET m  == Abs(a.v)
           ip == DigitsOf(m \div Q2)
           f  == m % Q2
           fp == IF f = 0 THEN <<>>
                 ELSE IF f % 10 = 0 THEN <<".", Digits[(f \div 10) + 1]>>
                 ELSE <<".", Digits[(f \div 10) + 1], Digits[(f % 10) + 1]>>
       IN  (IF a.v < 0 THEN <<"-">> ELSE <<>>) \o ip \o fp

\* typeof x === 'number'
IsNumber(x) == x.k # "str"

\* The number an arithmetic operator sees in place of x (ToNumber).
ToNumber(x) == IF IsNumber(x) THEN x ELSE NumberOfString(x.v)

\* The empty placeholder ''.
Empty == Str(<<>>)

-----------------------------------------------------------------------------
(* Constants of the component *)

PaymentFrequencyValues ==
  <<"monthly", "biweekly", "accelerated_biweekly", "weekly", "accelerated_weekly">>

\* A faulty table: the accelerated frequencies with 24 and 48 payments a
\* year, two and four for every month.
PaymentFrequenciesPerMonth ==
  [f \in {PaymentFrequencyValues[i] : i \in 1..5} |->
     CASE f = "monthly" -> 12
       [] f = "biweekly" -> 26
       [] f = "accelerated_biweekly" -> 24
       [] f = "weekly" -> 52
       [] f = "accelerated_weekly" -> 48]

PAYMENT_FREQUENCIES ==
  [f \in {PaymentFrequencyValues[i] : i \in 1..5} |->
     CASE f = "monthly" -> 12
       [] f = "biweekly" -> 26
       [] f = "accelerated_biweekly" -> 26
       [] f = "weekly" -> 52
       [] f = "accelerated_weekly" -> 52]

AMORTIZATION_PERIODS == {y \in {i + 5 : i \in 0..25} : y <= 30}

TERM_LENGTHS == {i + 1 : i \in 0..9}

-----------------------------------------------------------------------------
(* The amortization engine *)

\* The largest number of passes the outer loop can make: the largest
\* amortization period the component offers.
MaxYears == CHOOSE y \in AMORTIZATION_PERIODS : \A z \in AMORTIZATION_PERIODS : z <= y

\* A faulty inner loop body: the extra payment is taken out of the
\* payment's principal component instead of added to it.
PaymentExtraSubtracted(st, i, year, p) ==
  IF st.stop THEN st
  ELSE IF Le(st.balance, Zero)
  THEN [st EXCEPT !.lastPaymentNumber = @ + 1, !.stop = TRUE]
  ELSE
    LET interestForPayment == Mul(st.balance, p.interestRatePerPayment, RS)
        basePrincipal ==
          Min(Sub(p.adjustedPayment, interestForPayment), st.balance)
        extraPrincipalPaid ==
          IF Gt(p.extraPayment, Zero)
          THEN Min(p.extraPayment, Sub(st.balance, basePrincipal))
          ELSE Zero
        principalForPayment == Sub(basePrincipal, extraPrincipalPaid)
        balance == Sub(st.balance, principalForPayment)
        totalInterestPaid == Add(st.totalInterestPaid, interestForPayment)
        atTerm == FromInt(year) = p.term /\ i = p.paymentsPerYear
    IN  [balance |-> balance,
         totalInterestPaid |-> totalInterestPaid,
         totalInterestPaidOverTerm |->
           IF atTerm THEN totalInterestPaid ELSE st.totalInterestPaidOverTerm,
         balanceAtEndOfTerm |->
           IF atTerm THEN balance ELSE st.balanceAtEndOfTerm,
         lastPaymentNumber |-> st.lastPaymentNumber + 1,
         applied |-> st.applied + 1,
         yearEnds |-> st.yearEnds,
         yearlyPrincipalPaid |-> Add(st.yearlyPrincipalPaid, principalForPayment),
         yearlyInterestPaid |-> Add(st.yearlyInterestPaid, interestForPayment),
         yearlyExtraPayments |-> Add(st.yearlyExtraPayments, extraPrincipalPaid),
         yearlySchedule |-> st.yearlySchedule,
         stop |-> FALSE,
         finished |-> FALSE]

\* One pass of the inner loop body, payment i of the year; st holds the
\* running totals and st.stop tells that the loop was left by break.
\* Two fields of st are history the code does not keep, recorded for the
\* properties: st.applied counts the passes that got past the break and
\* applied a payment, st.yearEnds holds the totals each year had when its
\* payments were done, before the annual prepayment.
Payment(st, i, year, p) ==
  IF st.stop THEN st
  ELSE IF Le(st.balance, Zero)
  THEN [st EXCEPT !.lastPaymentNumber = @ + 1, !.stop = TRUE]
  ELSE
    LET interestForPayment == Mul(st.balance, p.interestRatePerPayment, RS)
        basePrincipal ==
          Min(Sub(p.adjustedPayment, interestForPayment), st.balance)
        extraPrincipalPaid ==
          IF Gt(p.extraPayment, Zero)
          THEN Min(p.extraPayment, Sub(st.balance, basePrincipal))
          ELSE Zero
        principalForPayment ==
          IF Gt(p.extraPayment, Zero)
          THEN Add(basePrincipal, extraPrincipalPaid)
          ELSE basePrincipal
        balance == Sub(st.balance, principalForPayment)
        totalInterestPaid == Add(st.totalInterestPaid, interestForPayment)
        atTerm == FromInt(year) = p.term /\ i = p.paymentsPerYear
    IN  [balance |-> balance,
         totalInterestPaid |-> totalInterestPaid,
         totalInterestPaidOverTerm |->
           IF atTerm THEN totalInterestPaid ELSE st.totalInterestPaidOverTerm,
         balanceAtEndOfTerm |->
           IF atTerm THEN balance ELSE st.balanceAtEndOfTerm,
         lastPaymentNumber |-> st.lastPaymentNumber + 1,
         applied |-> st.applied + 1,
         yearEnds |-> st.yearEnds,
         yearlyPrincipalPaid |-> Add(st.yearlyPrincipalPaid, principalForPayment),
         yearlyInterestPaid |-> Add(st.yearlyInterestPaid, interestForPayment),
         yearlyExtraPayments |-> Add(st.yearlyExtraPayments, extraPrincipalPaid),
         yearlySchedule |-> st.yearlySchedule,
         stop |-> FALSE,
         finished |-> FALSE]

\* The inner loop, passes lo..hi in order (the whole loop is passes
\* 1..paymentsPerYear).  The range is split in halves, the second half
\* skipped once the loop has been left, so that the evaluation depth stays
\* logarithmic in the number of passes.
RECURSIVE PaymentLoop(_, _, _, _, _)
PaymentRest(done, lo, hi, year, p) ==
  IF done.stop THEN done ELSE PaymentLoop(done, lo, hi, year, p)

PaymentLoop(st, lo, hi, year, p) ==
  IF lo = hi THEN Payment(st, lo, year, p)
  ELSE PaymentRest(PaymentLoop(st, lo, (lo + hi) \div 2, year, p),
                   ((lo + hi) \div 2) + 1, hi, year, p)

\* A faulty end of the year: the annual prepayment is a percentage of the
\* balance left instead of the original principal.
YearEndOnBalance(paid, year, p) ==
  LET prepay == Gt(p.annualPrepayment, Zero) /\ Gt(paid.balance, Zero)
      annualPrepaymentAmount ==
        IF prepay
        THEN Min(PercentOf(paid.balance, p.annualPrepayment), paid.balance)
        ELSE Zero
      balance ==
        IF prepay THEN Sub(paid.balance, annualPrepaymentAmount)
        ELSE paid.balance
      row == [year |-> year,
              principalPaid |->
                IF prepay
                THEN Add(paid.yearlyPrincipalPaid, annualPrepaymentAmount)
                ELSE paid.yearlyPrincipalPaid,
              interestPaid |-> paid.yearlyInterestPaid,
              extraPayments |->
                IF prepay
                THEN Add(paid.yearlyExtraPayments, annualPrepaymentAmount)
                ELSE paid.yearlyExtraPayments,
              endingBalance |-> balance]
  IN  [paid EXCEPT !.balance = balance,
                   !.yearlySchedule = Append(@, row),
                   !.yearEnds =
                     Append(@, [balance |-> paid.balance,
                                principalPaid |-> paid.yearlyPrincipalPaid,
                                extraPayments |-> paid.yearlyExtraPayments]),
                   !.finished = Le(balance, Zero)]

\* The end of one pass of the outer loop: the annual prepayment, the year's
\* row and the early exit; paid holds the totals after the year's payments.
YearEnd(paid, year, p) ==
  LET prepay == Gt(p.annualPrepayment, Zero) /\ Gt(paid.balance, Zero)
      annualPrepaymentAmount ==
        IF prepay
        THEN Min(PercentOf(p.principal, p.annualPrepayment), paid.balance)
        ELSE Zero
      balance ==
        IF prepay THEN Sub(paid.balance, annualPrepaymentAmount)
        ELSE paid.balance
      row == [year |-> year,
              principalPaid |->
                IF prepay
                THEN Add(paid.yearlyPrincipalPaid, annualPrepaymentAmount)
                ELSE paid.yearlyPrincipalPaid,
              interestPaid |-> paid.yearlyInterestPaid,
              extraPayments |->
                IF prepay
                THEN Add(paid.yearlyExtraPayments, annualPrepaymentAmount)
                ELSE paid.yearlyExtraPayments,
              endingBalance |-> balance]
  IN  [paid EXCEPT !.balance = balance,
                   !.yearlySchedule = Append(@, row),
                   !.yearEnds =
                     Append(@, [balance |-> paid.balance,
                                principalPaid |-> paid.yearlyPrincipalPaid,
                                extraPayments |-> paid.yearlyExtraPayments]),
                   !.finished = Le(balance, Zero)]

\* A faulty outer loop body: the loop condition is not tested, the loop
\* runs for the longest period offered.
YearUnconditional(st, year, p) ==
  IF st.finished THEN st
  ELSE YearEnd(PaymentLoop([st EXCEPT !.yearlyPrincipalPaid = Zero,
                                      !.yearlyInterestPaid = Zero,
                                      !.yearlyExtraPayments = Zero,
                                      !.stop = FALSE],
                           1, p.paymentsPerYear, year, p),
               year, p)

\* A faulty outer loop body: the term-end snapshot is taken a year late.
YearTermLate(st, year, p) ==
  IF st.finished THEN st
  ELSE IF ~Le(FromInt(year), p.amortizationYears)
  THEN [st EXCEPT !.finished = TRUE]
  ELSE YearEnd(PaymentLoop([st EXCEPT !.yearlyPrincipalPaid = Zero,
                                      !.yearlyInterestPaid = Zero,
                                      !.yearlyExtraPayments = Zero,
                                      !.stop = FALSE],
                           1, p.paymentsPerYear, year,
                           [p EXCEPT !.term = Add(@, One)]),
               year, p)

\* One pass of the outer loop, with its loop condition; st.finished tells
\* that the loop was left, by break or by its condition.
Year(st, year, p) ==
  IF st.finished THEN st
  ELSE IF ~Le(FromInt(year), p.amortizationYears)
  THEN [st EXCEPT !.finished = TRUE]
  ELSE YearEnd(PaymentLoop([st EXCEPT !.yearlyPrincipalPaid = Zero,
                                      !.yearlyInterestPaid = Zero,
                                      !.yearlyExtraPayments = Zero,
                                      !.stop = FALSE],
                           1, p.paymentsPerYear, year, p),
               year, p)

\* The outer loop, passes lo..hi in order (the whole loop is passes
\* 1..MaxYears, of which the loop condition admits the first
\* amortizationYears), split in halves like the inner loop.
RECURSIVE YearLoop(_, _, _, _)
\* A faulty outer loop without the break after a year that ends with the
\* loan paid off.
YearRestWithoutBreak(done, lo, hi, p) ==
  IF done.finished
  THEN YearLoop([done EXCEPT !.finished = FALSE], lo, hi, p)
  ELSE YearLoop(done, lo, hi, p)

YearRest(done, lo, hi, p) ==
  IF done.finished THEN done ELSE YearLoop(done, lo, hi, p)

YearLoop(st, lo, hi, p) ==
  IF lo = hi THEN Year(st, lo, p)
  ELSE YearRest(YearLoop(st, lo, (lo + hi) \div 2, p),
                ((lo + hi) \div 2) + 1, hi, p)

\* The values generateAmortizationSchedule returns, from the loop's totals.
ScheduleResult(done, paymentsPerYear) ==
  [yearlySchedule |-> done.yearlySchedule,
   totalInterestPaid |-> done.totalInterestPaid,
   totalInterestPaidOverTerm |-> done.totalInterestPaidOverTerm,
   balanceAtEndOfTerm |-> done.balanceAtEndOfTerm,
   effectiveAmortizationYears |->
     DivInt(FromInt(done.lastPaymentNumber), paymentsPerYear)]

\* The outer loop from its start: its condition is tested for year 1
\* before the first pass is made.
Loops(st, p) ==
  IF Le(FromInt(1), p.amortizationYears)
  THEN YearLoop(st, 1, MaxYears, p)
  ELSE [st EXCEPT !.finished = TRUE]

\* The loops of generateAmortizationSchedule, from the initial values of
\* its variables to the totals they leave.
ScheduleLoop(principal, annualInterestRate, amortizationYears, paymentAmount, paymentsPerYear, term, extraPayment, paymentIncrease, annualPrepayment) ==
  Loops([balance |-> principal,
         totalInterestPaid |-> Zero,
         totalInterestPaidOverTerm |-> Zero,
         balanceAtEndOfTerm |-> Zero,
         lastPaymentNumber |-> 0,
         applied |-> 0,
         yearEnds |-> <<>>,
         yearlyPrincipalPaid |-> Zero,
         yearlyInterestPaid |-> Zero,
         yearlyExtraPayments |-> Zero,
         yearlySchedule |-> <<>>,
         stop |-> FALSE,
         finished |-> FALSE],
        [principal |-> principal,
         interestRatePerPayment |->
           DivInt(Per100(annualInterestRate), paymentsPerYear),
         adjustedPayment |->
           Mul(paymentAmount, Add(One, Per100(paymentIncrease)), RS),
         amortizationYears |-> amortizationYears,
         paymentsPerYear |-> paymentsPerYear,
         term |-> term,
         extraPayment |-> extraPayment,
         annualPrepayment |-> annualPrepayment])

generateAmortizationSchedule(principal, annualInterestRate, amortizationYears, paymentAmount, paymentsPerYear, term, extraPayment, paymentIncrease, annualPrepayment) ==
  ScheduleResult(
    ScheduleLoop(principal, annualInterestRate, amortizationYears,
                 paymentAmount, paymentsPerYear, term, extraPayment,
                 paymentIncrease, annualPrepayment),
    paymentsPerYear)

\* Math.pow(1 + r, n) where n is a Q2 number holding a payment count.
PowCount(r, n) ==
  IF IsNaN(r) \/ IsNaN(n) THEN NaN
  ELSE IF IsInf(r) THEN (IF r.v > 0 THEN r ELSE NaN)
  ELSE PowI(Add(One, r), n.v \div Q2)

\* The operand an arithmetic operator sees for each field of a scenario
\* (ToNumber); the two selector fields are not used in arithmetic.
NumericFields ==
  {"purchasePrice", "downPayment", "interestRate", "amortizationPeriod",
   "term", "extraPayment", "paymentIncrease", "annualPrepayment"}

Operands(scenario) == [f \in NumericFields |-> ToNumber(scenario[f])]

paymentsPerYearOf(scenario) ==
  IF scenario.paymentFrequency \in DOMAIN PAYMENT_FREQUENCIES
  THEN PAYMENT_FREQUENCIES[scenario.paymentFrequency]
  ELSE PAYMENT_FREQUENCIES[PaymentFrequencyValues[1]]

\* purchasePrice minus the down payment in currency; n = Operands(scenario).
mortgageAmountOf(scenario, n) ==
  Sub(n.purchasePrice,
      IF scenario.downPaymentType = "amount"
      THEN n.downPayment
      ELSE PercentOf(n.purchasePrice, n.downPayment))

\* principal * (r * pw) / (pw - 1) with pw = Math.pow(1 + r, n)
AnnuityPow(principal, r, pw) ==
  Div(Mul(principal, Mul(r, pw, RS), RS), Sub(pw, One), RS)

\* A faulty annuity payment: the power is taken over one payment more.
AnnuityOnePaymentMore(principal, r, n) ==
  AnnuityPow(principal, r, PowCount(r, Add(n, FromInt(1))))

Annuity(principal, r, n) == AnnuityPow(principal, r, PowCount(r, n))

\* The payment per period before the payment increase, from the mortgage
\* amount, the annual rate as a factor and the payments per year.  The
\* code assigns paymentAmount from the zero-rate test or the annuity
\* formula and then overwrites it for the two accelerated frequencies
\* whatever the rate is; the value it ends with is the override's for an
\* accelerated frequency and the first assignment's otherwise.
paymentAmountOf(scenario, n, mortgageAmount, annualInterestRate, paymentsPerYear) ==
  IF scenario.paymentFrequency = "accelerated_biweekly"
     \/ scenario.paymentFrequency = "accelerated_weekly"
  THEN DivInt(Annuity(mortgageAmount, DivInt(annualInterestRate, 12),
                      MulInt(n.amortizationPeriod, 12)),
              IF scenario.paymentFrequency = "accelerated_biweekly"
              THEN 2 ELSE 4)
  ELSE IF scenario.interestRate = Zero
  THEN Div(mortgageAmount, MulInt(n.amortizationPeriod, paymentsPerYear), Q2)
  ELSE Annuity(mortgageAmount, DivInt(annualInterestRate, paymentsPerYear),
               MulInt(n.amortizationPeriod, paymentsPerYear))

\* A faulty monthly equivalent, taken from the payment after the payment
\* increase instead of the base payment.
monthlyPaymentOfIncreased(scenario, paymentAmount, paymentsPerYear) ==
  IF scenario.paymentFrequency = "monthly"
  THEN Mul(paymentAmount,
           Add(One, Per100(ToNumber(scenario.paymentIncrease))), RS)
  ELSE DivInt(MulInt(Mul(paymentAmount,
                         Add(One, Per100(ToNumber(scenario.paymentIncrease))),
                         RS),
                     paymentsPerYear),
              12)

\* The monthly equivalent shown for comparison.
monthlyPaymentOf(scenario, paymentAmount, paymentsPerYear) ==
  IF scenario.paymentFrequency = "monthly"
  THEN paymentAmount
  ELSE DivInt(MulInt(paymentAmount, paymentsPerYear), 12)

\* The object calculateMortgage returns.
MortgageResult(monthlyPayment, mortgageAmount, scheduleResult) ==
  [monthlyPayment |-> monthlyPayment,
   totalMortgage |-> mortgageAmount,
   totalInterestTerm |-> scheduleResult.totalInterestPaidOverTerm,
   totalInterestLifetime |-> scheduleResult.totalInterestPaid,
   balanceAtEndOfTerm |-> scheduleResult.balanceAtEndOfTerm,
   effectiveAmortization |-> scheduleResult.effectiveAmortizationYears,
   amortizationSchedule |-> scheduleResult.yearlySchedule]

\* calculateMortgage once the payment amount is known.
MortgageWithPayment(scenario, n, mortgageAmount, paymentAmount, paymentsPerYear) ==
  MortgageResult(
    monthlyPaymentOf(scenario, paymentAmount, paymentsPerYear),
    mortgageAmount,
    generateAmortizationSchedule(
      mortgageAmount, n.interestRate, n.amortizationPeriod, paymentAmount,
      paymentsPerYear, scenario.term, n.extraPayment, n.paymentIncrease,
      n.annualPrepayment))

\* calculateMortgage once the mortgage amount is known.
MortgageWithAmount(scenario, n, mortgageAmount, paymentsPerYear) ==
  MortgageWithPayment(
    scenario, n, mortgageAmount,
    paymentAmountOf(scenario, n, mortgageAmount, Per100(n.interestRate),
                    paymentsPerYear),
    paymentsPerYear)

MortgageWithOperands(scenario, n) ==
  MortgageWithAmount(scenario, n, mortgageAmountOf(scenario, n),
                     paymentsPerYearOf(scenario))

calculateMortgage(scenario) ==
  MortgageWithOperands(scenario, Operands(scenario))

\* The payment per period and the mortgage amount calculateMortgage uses.
mortgageAmount(scenario) == mortgageAmountOf(scenario, Operands(scenario))

paymentAmount(scenario) ==
  paymentAmountOf(scenario, Operands(scenario), mortgageAmount(scenario),
                  Per100(Operands(scenario).interestRate),
                  paymentsPerYearOf(scenario))

\* The totals the loops of generateAmortizationSchedule leave when
\* calculateMortgage calls it for the scenario.
LoopWithOperands(scenario, n) ==
  ScheduleLoop(mortgageAmountOf(scenario, n), n.interestRate,
               n.amortizationPeriod, paymentAmount(scenario),
               paymentsPerYearOf(scenario), scenario.term, n.extraPayment,
               n.paymentIncrease, n.annualPrepayment)

scheduleLoop(scenario) == LoopWithOperands(scenario, Operands(scenario))

\* Faulty differences: timeShaved with the B - A orientation of the others.
DifferencesSameOrientation(resultA, resultB) ==
  [monthlyPayment |-> Sub(resultB.monthlyPayment, resultA.monthlyPayment),
   totalInterestTerm |->
     Sub(resultB.totalInterestTerm, resultA.totalInterestTerm),
   totalInterestLifetime |->
     Sub(resultB.totalInterestLifetime, resultA.totalInterestLifetime),
   balanceAtEndOfTerm |->
     Sub(resultB.balanceAtEndOfTerm, resultA.balanceAtEndOfTerm),
   timeShaved |->
     Sub(resultB.effectiveAmortization, resultA.effectiveAmortization)]

\* The differences calculateComparison reports between two results.
Differences(resultA, resultB) ==
  [monthlyPayment |-> Sub(resultB.monthlyPayment, resultA.monthlyPayment),
   totalInterestTerm |->
     Sub(resultB.totalInterestTerm, resultA.totalInterestTerm),
   totalInterestLifetime |->
     Sub(resultB.totalInterestLifetime, resultA.totalInterestLifetime),
   balanceAtEndOfTerm |->
     Sub(resultB.balanceAtEndOfTerm, resultA.balanceAtEndOfTerm),
   timeShaved |->
     Sub(resultA.effectiveAmortization, resultB.effectiveAmortization)]

\* The object calculateComparison stores, from the two results.
ComparisonOf(resultA, resultB) ==
  [scenarioA |-> resultA,
   scenarioB |-> resultB,
   differences |-> Differences(resultA, resultB)]

calculateComparison(a, b) ==
  ComparisonOf(calculateMortgage(a), calculateMortgage(b))

\* The scenario the results view names under 'Better Option':
\* differences.totalInterestLifetime <= 0 ? 'Scenario A' : 'Scenario B'
BetterOption(shown) ==
  IF Le(shown.differences.totalInterestLifetime, Zero)
  THEN "Scenario A"
  ELSE "Scenario B"

-----------------------------------------------------------------------------
(* The component's state and its handlers *)

InitialScenarioA ==
  [purchasePrice |-> FromInt(500000),
   downPayment |-> FromInt(100000),
   downPaymentType |-> "amount",
   interestRate |-> Fin(550),
   amortizationPeriod |-> FromInt(25),
   term |-> FromInt(5),
   paymentFrequency |-> "monthly",
   extraPayment |-> Zero,
   paymentIncrease |-> Zero,
   annualPrepayment |-> Zero]

InitialScenarioB ==
  [purchasePrice |-> FromInt(500000),
   downPayment |-> FromInt(100000),
   downPaymentType |-> "amount",
   interestRate |-> Fin(450),
   amortizationPeriod |-> FromInt(25),
   term |-> FromInt(5),
   paymentFrequency |-> "accelerated_biweekly",
   extraPayment |-> FromInt(200),
   paymentIncrease |-> Zero,
   annualPrepayment |-> Zero]

InitialResult ==
  [monthlyPayment |-> Zero,
   totalMortgage |-> Zero,
   totalInterestTerm |-> Zero,
   totalInterestLifetime |-> Zero,
   balanceAtEndOfTerm |-> Zero,
   effectiveAmortization |-> Zero,
   amortizationSchedule |-> <<>>]

InitialComparison ==
  [scenarioA |-> InitialResult,
   scenarioB |-> InitialResult,
   differences |->
     [monthlyPayment |-> Zero,
      totalInterestTerm |-> Zero,
      totalInterestLifetime |-> Zero,
      balanceAtEndOfTerm |-> Zero,
      timeShaved |-> Zero]]

\* Math.round(purchasePrice * (downPaymentPercent / 100) / 100) * 100
PercentToAmount(purchasePrice, downPaymentPercent) ==
  MulInt(MathRound(DivInt(PercentOf(purchasePrice, downPaymentPercent), 100)),
         100)

\* Math.round((downPayment / purchasePrice) * 100)
AmountToPercent(downPayment, purchasePrice) ==
  MathRound(MulInt(Div(downPayment, purchasePrice, Q2), 100))

\* x if typeof x === 'number', else 0
NumberOrZero(x) == IF IsNumber(x) THEN x ELSE Zero

\* The value the handler stores for the edited field: a field that holds
\* a number gets Number(text) of the value with its leading zeros stripped,
\* any other field gets the value as it came.
Coerced(scenario, name, value) ==
  IF name \in NumericFields /\ IsNumber(scenario[name])
  THEN NumberOfString(IF IsNumber(value) THEN StringOfNumber(value)
                      ELSE StripLeadingZeros(value.v))
  ELSE value

\* The related values the handler updates; value is the coerced value.
Related(scenario, name, value, updatedInputs) ==
  IF name = "purchasePrice" /\ scenario.downPaymentType = "percent"
  THEN [updatedInputs EXCEPT !.downPayment =
          PercentToAmount(NumberOrZero(value),
                          NumberOrZero(scenario.downPayment))]
  ELSE IF name = "downPayment"
  THEN [updatedInputs EXCEPT !.downPayment =
          IF scenario.downPaymentType = "percent"
          THEN (IF Gt(ToNumber(value), FromInt(100)) THEN FromInt(100)
                ELSE ToNumber(value))
          ELSE (IF Gt(ToNumber(value), NumberOrZero(scenario.purchasePrice))
                THEN NumberOrZero(scenario.purchasePrice)
                ELSE ToNumber(value))]
  ELSE IF name = "downPaymentType"
  THEN [updatedInputs EXCEPT !.downPayment =
          IF value = "percent"
          THEN AmountToPercent(NumberOrZero(scenario.downPayment),
                               NumberOrZero(scenario.purchasePrice))
          ELSE PercentToAmount(NumberOrZero(scenario.purchasePrice),
                               NumberOrZero(scenario.downPayment))]
  ELSE updatedInputs

Updated(scenario, name, value) ==
  Related(scenario, name, value, [scenario EXCEPT ![name] = value])

\* The scenario handleScenarioAChange / handleScenarioBChange stores for
\* the change of field name to value (the two handlers have the same body).
handleScenarioChange(scenario, name, value) ==
  IF name \in NumericFields /\ value = Empty
  THEN [scenario EXCEPT ![name] = Empty]
  ELSE Updated(scenario, name, Coerced(scenario, name, value))

\* Object.values(scenario).some(value => value === ''); the two selector
\* fields always hold one of their options.
HasEmpty(scenario) == \E f \in NumericFields : scenario[f] = Empty

\* A faulty effect that recomputes scenario A's result only.
RecomputeScenarioAOnly(a, b, old) ==
  IF HasEmpty(a) \/ HasEmpty(b) THEN old
  ELSE ComparisonOf(calculateMortgage(a), old.scenarioB)

\* A faulty effect without the gate: it recomputes after every render.
RecomputeUngated(a, b, old) == calculateComparison(a, b)

\* The recompute effect: the comparison after a render with scenarios a, b.
Recompute(a, b, old) ==
  IF HasEmpty(a) \/ HasEmpty(b) THEN old ELSE calculateComparison(a, b)

-----------------------------------------------------------------------------
(* The user's events *)

\* The number of state-changing events of a session that is explored.
MaxEdits == 3

\* The inputs rendered as <input type="number">.
TextFields ==
  {"purchasePrice", "downPayment", "interestRate", "extraPayment",
   "paymentIncrease", "annualPrepayment"}

\* The texts typed into the inputs: a price below the initial down payment,
\* a down payment above the initial price, the empty text and a zero with
\* a leading zero.
TypedTexts ==
  {<<"purchasePrice", StringOfNumber(FromInt(30000))>>,
   <<"downPayment", StringOfNumber(FromInt(600000))>>,
   <<"interestRate", <<>>>>,
   <<"interestRate", <<"0", "0">>>>}

\* The options chosen in the amortization-period and term-length selects.
AmortizationChoices == {y \in AMORTIZATION_PERIODS : y <= 5}

TermChoices == {t \in TERM_LENGTHS : t >= 10}

\* The change events: e.target.value of an input, Number(e.target.value)
\* of the two numeric selects, e.target.value of the down-payment-type
\* select.
ChangeEvents ==
  {[name |-> t[1], value |-> Str(t[2])] : t \in TypedTexts}
    \cup {[name |-> "amortizationPeriod", value |-> FromInt(y)] :
            y \in AmortizationChoices}
    \cup {[name |-> "term", value |-> FromInt(t)] : t \in TermChoices}
    \cup {[name |-> "downPaymentType", value |-> t] :
            t \in {"amount", "percent"}}

\* The text an input shows for the value x of its field.
Shown(x) ==
  IF x = Zero THEN <<>>
  ELSE IF IsNumber(x) THEN StringOfNumber(x)
  ELSE x.v

\* A control fires a change event only for a value other than the one it
\* shows.
Fires(scenario, e) ==
  IF e.name \in TextFields THEN e.value.v # Shown(scenario[e.name])
  ELSE e.value # scenario[e.name]

\* The first render: the recompute effect runs once on mount.
Mount ==
  /\ ~mounted
  /\ mounted' = TRUE
  /\ comparison' = Recompute(scenarioA, scenarioB, comparison)
  /\ UNCHANGED <<scenarioA, scenarioB, edits>>

handleScenarioAChange ==
  /\ mounted
  /\ edits < MaxEdits
  /\ \E e \in ChangeEvents :
       /\ Fires(scenarioA, e)
       /\ scenarioA' = handleScenarioChange(scenarioA, e.name, e.value)
  /\ comparison' = Recompute(scenarioA', scenarioB, comparison)
  /\ edits' = edits + 1
  /\ UNCHANGED <<scenarioB, mounted>>

handleScenarioBChange ==
  /\ mounted
  /\ edits < MaxEdits
  /\ \E e \in ChangeEvents :
       /\ Fires(scenarioB, e)
       /\ scenarioB' = handleScenarioChange(scenarioB, e.name, e.value)
  /\ comparison' = Recompute(scenarioA, scenarioB', comparison)
  /\ edits' = edits + 1
  /\ UNCHANGED <<scenarioA, mounted>>

\* handleBlur(scenario, name): a field left empty becomes 0.
handleBlur ==
  /\ mounted
  /\ edits < MaxEdits
  /\ \E name \in TextFields :
       \/ /\ scenarioA[name] = Empty
          /\ scenarioA' = [scenarioA EXCEPT ![name] = Zero]
          /\ scenarioB' = scenarioB
       \/ /\ scenarioB[name] = Empty
          /\ scenarioB' = [scenarioB EXCEPT ![name] = Zero]
          /\ scenarioA' = scenarioA
  /\ comparison' = Recompute(scenarioA', scenarioB', comparison)
  /\ edits' = edits + 1
  /\ UNCHANGED mounted

Init ==
  /\ scenarioA = InitialScenarioA
  /\ scenarioB = InitialScenarioB
  /\ comparison = InitialComparison
  /\ mounted = FALSE
  /\ edits = 0

Next ==
  \/ Mount
  \/ handleScenarioAChange
  \/ handleScenarioBChange
  \/ handleBlur

Spec == Init /\ [][Next]_vars

-----------------------------------------------------------------------------
(* The engine on its own: the component mounted with a pair of well-formed *)
(* scenarios, which the first render's effect compares.                    *)

\* The amortization period, in years, of the scenarios compared.
EngineYears == 5

EngineTerms == {EngineYears - 2, EngineYears, EngineYears + 5}

EngineRates == {Zero, Fin(550)}

EngineDownPayments ==
  {[type |-> "amount", value |-> FromInt(60000)],
   [type |-> "percent", value |-> FromInt(20)]}

EngineExtras ==
  {[extraPayment |-> Zero, paymentIncrease |-> Zero, annualPrepayment |-> Zero],
   [extraPayment |-> FromInt(100), paymentIncrease |-> Zero,
    annualPrepayment |-> Zero],
   [extraPayment |-> Zero, paymentIncrease |-> FromInt(10),
    annualPrepayment |-> Zero],
   [extraPayment |-> Zero, paymentIncrease |-> Zero,
    annualPrepayment |-> FromInt(10)],
   [extraPayment |-> FromInt(20000), paymentIncrease |-> Zero,
    annualPrepayment |-> Zero],
   [extraPayment |-> FromInt(100), paymentIncrease |-> Zero,
    annualPrepayment |-> FromInt(10)]}

EngineScenarios ==
  {[purchasePrice |-> FromInt(300000),
    downPayment |-> d.value,
    downPaymentType |-> d.type,
    interestRate |-> r,
    amortizationPeriod |-> FromInt(EngineYears),
    term |-> FromInt(EngineYears),
    paymentFrequency |-> f,
    extraPayment |-> x.extraPayment,
    paymentIncrease |-> x.paymentIncrease,
    annualPrepayment |-> x.annualPrepayment] :
     d \in EngineDownPayments, r \in EngineRates,
     f \in DOMAIN PAYMENT_FREQUENCIES, x \in EngineExtras}

\* The scenarios compared with s: s with another term and other
\* prepayment options, and s with another payment frequency.
Variants(s) ==
  {[s EXCEPT !.term = FromInt(t),
             !.extraPayment = x.extraPayment,
             !.paymentIncrease = x.paymentIncrease,
             !.annualPrepayment = x.annualPrepayment] :
     t \in EngineTerms, x \in EngineExtras}
    \cup {[s EXCEPT !.paymentFrequency = f] : f \in DOMAIN PAYMENT_FREQUENCIES}

EngineInit ==
  /\ scenarioA \in EngineScenarios
  /\ scenarioB \in Variants(scenarioA)
  /\ comparison = InitialComparison
  /\ mounted = FALSE
  /\ edits = 0

SpecEngine == EngineInit /\ [][Mount]_vars

-----------------------------------------------------------------------------
(* The down-payment-type toggle: sessions that start after the user has   *)
(* typed a purchase price or a down payment into scenario A.               *)

\* The texts typed first: a price and a down payment for which the down
\* payment, within the price, is not a whole percentage of it.
ToggleTexts ==
  {<<"purchasePrice", StringOfNumber(FromInt(300000))>>,
   <<"downPayment", StringOfNumber(FromInt(123456))>>}

\* The mounted component after one of the texts was typed into scenario A
\* of the initial scenarios.
ToggleInit ==
  /\ scenarioA \in {handleScenarioChange(InitialScenarioA, t[1], Str(t[2])) :
                      t \in ToggleTexts}
  /\ scenarioB = InitialScenarioB
  /\ comparison = Recompute(scenarioA, scenarioB, InitialComparison)
  /\ mounted = TRUE
  /\ edits = 1

Edit ==
  \/ handleScenarioAChange
  \/ handleScenarioBChange
  \/ handleBlur

SpecToggle == ToggleInit /\ [][Edit]_vars

\* The scenario after downPaymentType is switched to 'percent' and back to
\* 'amount', with no other edit in between.
ToggledAndBack(scenario) ==
  handleScenarioChange(
    handleScenarioChange(scenario, "downPaymentType", "percent"),
    "downPaymentType", "amount")

-----------------------------------------------------------------------------
(* Properties *)

\* The two scenarios, each with the result the comparison stores for it.
Computed ==
  {[scenario |-> scenarioA, result |-> comparison.scenarioA],
   [scenario |-> scenarioB, result |-> comparison.scenarioB]}

\* The effect has computed the comparison of the scenarios as they are.
Compared == mounted /\ ~HasEmpty(scenarioA) /\ ~HasEmpty(scenarioB)

\* a and b are finite and differ by at most tol units.
Within(a, b, tol) == IsFin(a) /\ IsFin(b) /\ Abs(a.v - b.v) <= tol

\* The number of payments the scenario schedules.
totalPayments(scenario) ==
  (ToNumber(scenario.amortizationPeriod).v \div Q2) * paymentsPerYearOf(scenario)

\* C1: in every reachable state each scenario's downPayment is at most its
\* purchasePrice when downPaymentType is 'amount' and at most 100 when it
\* is 'percent'.
C1_DownPaymentWithinBounds ==
  \A s \in {scenarioA, scenarioB} :
    IF s.downPaymentType = "amount"
    THEN Le(ToNumber(s.downPayment), ToNumber(s.purchasePrice))
    ELSE Le(ToNumber(s.downPayment), FromInt(100))

\* C1: scenario A after a purchase price below the down payment is typed.
C1_PriceBelowDownPayment ==
  /\ scenarioA.downPaymentType = "amount"
  /\ scenarioA.purchasePrice = FromInt(30000)
  /\ scenarioA.downPayment = FromInt(100000)

\* C2: whenever the effect has invoked the engine, every numeric input of
\* both scenarios is non-negative and the principal financed, reported as
\* totalMortgage, is at least 0.
C2_EngineInputsNonNegative ==
  Compared =>
    \A c \in Computed :
      /\ \A f \in NumericFields : Le(Zero, ToNumber(c.scenario[f]))
      /\ Le(Zero, c.result.totalMortgage)

\* C2: the engine has run on scenario A with a negative principal.
C2_NegativePrincipalComputed ==
  /\ Compared
  /\ scenarioA.purchasePrice = FromInt(30000)
  /\ comparison.scenarioA.totalMortgage = FromInt(30000 - 100000)

\* C3: in every reachable state term <= amortizationPeriod holds for
\* scenario A and for scenario B.
C3_TermWithinAmortization ==
  \A s \in {scenarioA, scenarioB} :
    Le(ToNumber(s.term), ToNumber(s.amortizationPeriod))

\* C3: scenario A with the shortest amortization period and the longest
\* term selected.
C3_TermBeyondAmortization ==
  /\ scenarioA.amortizationPeriod = FromInt(5)
  /\ scenarioA.term = FromInt(10)

\* C4: after every scenario change that leaves no field of either scenario
\* equal to '', the stored comparison holds calculateMortgage of the
\* current scenario A, calculateMortgage of the current scenario B and the
\* differences of exactly those two results.
C4_ComparisonNeverStale ==
  Compared =>
    /\ comparison.scenarioA = calculateMortgage(scenarioA)
    /\ comparison.scenarioB = calculateMortgage(scenarioB)
    /\ comparison.differences =
         Differences(comparison.scenarioA, comparison.scenarioB)

\* C4: a change of scenario B after a change of scenario A, both compared.
C4_RecomputedAfterChanges ==
  /\ Compared
  /\ edits >= 2
  /\ scenarioA.purchasePrice # InitialScenarioA.purchasePrice
  /\ scenarioB.term # InitialScenarioB.term
  /\ comparison.scenarioA.totalMortgage = FromInt(30000 - 100000)
  /\ IsFin(comparison.scenarioB.balanceAtEndOfTerm)
  /\ comparison.scenarioB.balanceAtEndOfTerm.v > 0

\* C5: differences holds B - A for monthlyPayment, totalInterestTerm,
\* totalInterestLifetime and balanceAtEndOfTerm, and A - B for timeShaved,
\* of the two results the comparison stores.
C5_DifferencesOrientation ==
  mounted =>
    /\ comparison.differences.monthlyPayment =
         Sub(comparison.scenarioB.monthlyPayment,
             comparison.scenarioA.monthlyPayment)
    /\ comparison.differences.totalInterestTerm =
         Sub(comparison.scenarioB.totalInterestTerm,
             comparison.scenarioA.totalInterestTerm)
    /\ comparison.differences.totalInterestLifetime =
         Sub(comparison.scenarioB.totalInterestLifetime,
             comparison.scenarioA.totalInterestLifetime)
    /\ comparison.differences.balanceAtEndOfTerm =
         Sub(comparison.scenarioB.balanceAtEndOfTerm,
             comparison.scenarioA.balanceAtEndOfTerm)
    /\ comparison.differences.timeShaved =
         Sub(comparison.scenarioA.effectiveAmortization,
             comparison.scenarioB.effectiveAmortization)

\* C5: scenario B, with prepayments, is paid off sooner and with less
\* interest than scenario A: timeShaved is positive where the lifetime
\* interest difference is negative.
C5_ScenarioBPaidOffSooner ==
  /\ mounted
  /\ IsFin(comparison.differences.timeShaved)
  /\ comparison.differences.timeShaved.v > 0
  /\ IsFin(comparison.differences.totalInterestLifetime)
  /\ comparison.differences.totalInterestLifetime.v < 0
  /\ IsFin(comparison.differences.balanceAtEndOfTerm)
  /\ comparison.differences.balanceAtEndOfTerm.v < 0

\* C6: with interestRate = 0 and any of the five frequencies the payment
\* amount is principal / (amortizationPeriod * paymentsPerYear), and no
\* 0/0 is evaluated for it.
C6_ZeroRatePayment ==
  \A s \in {scenarioA, scenarioB} :
    s.interestRate = Zero =>
      /\ ~IsNaN(paymentAmount(s))
      /\ paymentAmount(s) =
           Div(mortgageAmount(s),
               MulInt(ToNumber(s.amortizationPeriod), paymentsPerYearOf(s)),
               Q2)

\* C6: a zero-rate accelerated scenario whose computed payment is NaN.
C6_ZeroRateAcceleratedNaN ==
  /\ mounted
  /\ scenarioA.interestRate = Zero
  /\ scenarioA.paymentFrequency = "accelerated_biweekly"
  /\ IsNaN(paymentAmount(scenarioA))
  /\ IsNaN(comparison.scenarioA.monthlyPayment)

\* C7: for a zero-rate scenario totalInterestLifetime is 0 and
\* monthlyPayment * amortizationPeriod * paymentsPerYear equals the
\* principal within rounding (a cent for every payment).
C7_ZeroRateTotals ==
  mounted =>
    \A c \in Computed :
      c.scenario.interestRate = Zero =>
        /\ c.result.totalInterestLifetime = Zero
        /\ Within(MulInt(Mul(c.result.monthlyPayment,
                             ToNumber(c.scenario.amortizationPeriod), Q2),
                         paymentsPerYearOf(c.scenario)),
                  c.result.totalMortgage,
                  totalPayments(c.scenario))

\* C7: a zero-rate accelerated scenario whose lifetime interest is NaN.
C7_ZeroRateInterestNaN ==
  /\ mounted
  /\ scenarioA.interestRate = Zero
  /\ scenarioA.paymentFrequency = "accelerated_weekly"
  /\ IsNaN(comparison.scenarioA.totalInterestLifetime)

\* The scenario with the monthly frequency in place of its own.
Monthly(s) == [s EXCEPT !.paymentFrequency = "monthly"]

\* C8: the accelerated_biweekly payment is exactly half, and the
\* accelerated_weekly payment exactly a quarter, of the standard monthly
\* payment for the same principal, rate and amortization period, and not
\* the annuity payment at the biweekly or weekly periodic rate.
C8_AcceleratedPayment ==
  \A s \in {scenarioA, scenarioB} :
    /\ s.paymentFrequency = "accelerated_biweekly" =>
         /\ paymentAmount(s) = DivInt(paymentAmount(Monthly(s)), 2)
         /\ paymentAmount(s) #
              paymentAmount([s EXCEPT !.paymentFrequency = "biweekly"])
    /\ s.paymentFrequency = "accelerated_weekly" =>
         /\ paymentAmount(s) = DivInt(paymentAmount(Monthly(s)), 4)
         /\ paymentAmount(s) #
              paymentAmount([s EXCEPT !.paymentFrequency = "weekly"])

\* C8: a zero-rate accelerated scenario: the monthly payment is finite,
\* the accelerated payment is not half of it.
C8_ZeroRateNotHalf ==
  /\ mounted
  /\ scenarioA.interestRate = Zero
  /\ scenarioA.paymentFrequency = "accelerated_biweekly"
  /\ IsFin(paymentAmount(Monthly(scenarioA)))
  /\ paymentAmount(scenarioA) # DivInt(paymentAmount(Monthly(scenarioA)), 2)

\* The scenarios agree on everything but term, extraPayment,
\* paymentIncrease and annualPrepayment.
SameBasePayment(a, b) ==
  \A f \in DOMAIN a :
    f \notin {"term", "extraPayment", "paymentIncrease", "annualPrepayment"}
      => a[f] = b[f]

\* C9: monthlyPayment is the payment amount for the monthly frequency and
\* payment * paymentsPerYear / 12 for every other one; two scenarios that
\* differ only in term, extraPayment, paymentIncrease and annualPrepayment
\* have the same monthlyPayment.
C9_MonthlyPayment ==
  mounted =>
    /\ \A c \in Computed :
         c.result.monthlyPayment =
           IF c.scenario.paymentFrequency = "monthly"
           THEN paymentAmount(c.scenario)
           ELSE DivInt(MulInt(paymentAmount(c.scenario),
                              paymentsPerYearOf(c.scenario)),
                       12)
    /\ SameBasePayment(scenarioA, scenarioB) =>
         comparison.scenarioA.monthlyPayment =
           comparison.scenarioB.monthlyPayment

\* C9: two biweekly scenarios that differ in term and payment increase:
\* the schedules differ, the monthly payments do not.
C9_SamePaymentOtherSchedule ==
  /\ mounted
  /\ scenarioA.paymentFrequency = "biweekly"
  /\ SameBasePayment(scenarioA, scenarioB)
  /\ scenarioA.term # scenarioB.term
  /\ scenarioA.paymentIncrease = Zero
  /\ scenarioB.paymentIncrease # Zero
  /\ IsFin(comparison.scenarioA.monthlyPayment)
  /\ comparison.scenarioA.monthlyPayment.v > 0
  /\ comparison.scenarioA.monthlyPayment = comparison.scenarioB.monthlyPayment
  /\ comparison.scenarioA.effectiveAmortization #
       comparison.scenarioB.effectiveAmortization

\* The sum of principalPaid over the rows of a schedule.
RECURSIVE SumPrincipalPaid(_)
SumPrincipalPaid(rows) ==
  IF rows = <<>> THEN Zero
  ELSE Add(SumPrincipalPaid(SubSeq(rows, 1, Len(rows) - 1)),
           rows[Len(rows)].principalPaid)

\* C10: for every well-formed scenario the rows' principalPaid sum to the
\* principal within rounding (a cent for every payment), and the last
\* row's endingBalance is <= 0 or there are amortizationPeriod rows.
C10_ScheduleTermination ==
  mounted =>
    \A c \in Computed :
      /\ c.result.amortizationSchedule # <<>>
      /\ Within(SumPrincipalPaid(c.result.amortizationSchedule),
                c.result.totalMortgage,
                totalPayments(c.scenario))
      /\ \/ Le(c.result.amortizationSchedule[
                 Len(c.result.amortizationSchedule)].endingBalance, Zero)
         \/ FromInt(Len(c.result.amortizationSchedule)) =
              c.scenario.amortizationPeriod

\* C10: a zero-rate accelerated scenario whose schedule has all its rows
\* and a NaN balance in the last.
C10_NaNSchedule ==
  /\ mounted
  /\ scenarioB.interestRate = Zero
  /\ scenarioB.paymentFrequency = "accelerated_biweekly"
  /\ Len(comparison.scenarioB.amortizationSchedule) = EngineYears
  /\ IsNaN(comparison.scenarioB.amortizationSchedule[EngineYears].endingBalance)
  /\ IsNaN(SumPrincipalPaid(comparison.scenarioB.amortizationSchedule))

\* Scenario b is scenario a with a larger extraPayment and nothing else
\* changed.
LargerExtraPayment(a, b) ==
  /\ \A f \in DOMAIN a : f # "extraPayment" => a[f] = b[f]
  /\ Gt(ToNumber(b.extraPayment), ToNumber(a.extraPayment))

\* C11: of two scenarios identical except that the second has a larger
\* extraPayment, the second's totalInterestLifetime is not greater than
\* the first's and its effectiveAmortization is not greater than the
\* first's.
C11_ExtraPaymentMonotone ==
  mounted =>
    /\ LargerExtraPayment(scenarioA, scenarioB) =>
         /\ ~Gt(comparison.scenarioB.totalInterestLifetime,
                comparison.scenarioA.totalInterestLifetime)
         /\ ~Gt(comparison.scenarioB.effectiveAmortization,
                comparison.scenarioA.effectiveAmortization)
    /\ LargerExtraPayment(scenarioB, scenarioA) =>
         /\ ~Gt(comparison.scenarioA.totalInterestLifetime,
                comparison.scenarioB.totalInterestLifetime)
         /\ ~Gt(comparison.scenarioA.effectiveAmortization,
                comparison.scenarioB.effectiveAmortization)

\* C11: a scenario with an extra payment of 100 compared with the same
\* scenario with one of 20000, which pays less interest and is paid off
\* sooner.
C11_LargerExtraPaysOffSooner ==
  /\ mounted
  /\ LargerExtraPayment(scenarioA, scenarioB)
  /\ scenarioA.extraPayment = FromInt(100)
  /\ IsFin(comparison.differences.totalInterestLifetime)
  /\ comparison.differences.totalInterestLifetime.v < 0
  /\ IsFin(comparison.differences.timeShaved)
  /\ comparison.differences.timeShaved.v > 0

\* C12: effectiveAmortization is the number of payments applied while the
\* balance was still positive divided by paymentsPerYear, wherever in the
\* year the last of them falls.
C12_EffectiveAmortizationCountsPayments ==
  mounted =>
    \A c \in Computed :
      c.result.effectiveAmortization =
        DivInt(FromInt(scheduleLoop(c.scenario).applied),
               paymentsPerYearOf(c.scenario))

\* C12: a monthly loan paid off by a payment that is not the last of its
\* year: the loop counts one pass more than the payments it applied.
C12_PaidOffWithinYear ==
  /\ mounted
  /\ scenarioA.paymentFrequency = "monthly"
  /\ scenarioA.interestRate # Zero
  /\ scenarioA.extraPayment = FromInt(20000)
  /\ scheduleLoop(scenarioA).applied % 12 # 0
  /\ scheduleLoop(scenarioA).lastPaymentNumber =
       scheduleLoop(scenarioA).applied + 1
  /\ Le(scheduleLoop(scenarioA).balance, Zero)
  /\ comparison.scenarioA.effectiveAmortization =
       DivInt(FromInt(scheduleLoop(scenarioA).applied + 1), 12)

\* The sum of interestPaid over the first n rows of a schedule.
RECURSIVE SumInterestPaid(_, _)
SumInterestPaid(rows, n) ==
  IF n = 0 THEN Zero
  ELSE Add(SumInterestPaid(rows, n - 1), rows[n].interestPaid)

\* The number of the last payment of the scenario's term.
termPayments(scenario) ==
  (ToNumber(scenario.term).v \div Q2) * paymentsPerYearOf(scenario)

\* The term-end values of result are those of the loop's history: the
\* balance the term year had when its payments were done and the interest
\* of the years up to it, or 0 when the term's last payment was not applied.
TermEndValues(scenario, result, loop) ==
  IF loop.applied >= termPayments(scenario)
  THEN /\ result.balanceAtEndOfTerm =
            loop.yearEnds[ToNumber(scenario.term).v \div Q2].balance
       /\ result.totalInterestTerm =
            SumInterestPaid(result.amortizationSchedule,
                            ToNumber(scenario.term).v \div Q2)
  ELSE /\ result.balanceAtEndOfTerm = Zero
       /\ result.totalInterestTerm = Zero

\* C13: balanceAtEndOfTerm and totalInterestTerm are the balance and the
\* cumulative interest right after payment number term * paymentsPerYear,
\* before that year's annual prepayment; both are 0 when that payment is
\* never applied (loan paid off earlier, or term > amortizationPeriod).
C13_TermEndSnapshot ==
  mounted =>
    \A c \in Computed :
      /\ TermEndValues(c.scenario, c.result, scheduleLoop(c.scenario))
      /\ Gt(ToNumber(c.scenario.term), ToNumber(c.scenario.amortizationPeriod))
           => /\ c.result.balanceAtEndOfTerm = Zero
              /\ c.result.totalInterestTerm = Zero

\* C13: scenario A is paid off before its term ends and reports 0 for both
\* values; scenario B, with an annual prepayment, reaches the end of its
\* term with a balance above the one its term year's row ends with.
C13_SnapshotBeforePrepayment ==
  /\ mounted
  /\ scenarioA.interestRate # Zero
  /\ scheduleLoop(scenarioA).applied < termPayments(scenarioA)
  /\ comparison.scenarioA.balanceAtEndOfTerm = Zero
  /\ comparison.scenarioA.totalInterestTerm = Zero
  /\ comparison.scenarioA.totalInterestLifetime # Zero
  /\ scenarioB.term = FromInt(EngineYears - 2)
  /\ scenarioB.annualPrepayment # Zero
  /\ IsFin(comparison.scenarioB.balanceAtEndOfTerm)
  /\ Gt(comparison.scenarioB.balanceAtEndOfTerm,
        comparison.scenarioB.amortizationSchedule[EngineYears - 2].endingBalance)
  /\ Gt(comparison.scenarioB.totalInterestTerm, Zero)

\* The scenario of the worked example: 500000 purchase, 100000 down,
\* 5.5 %, 25 years, monthly, no extra payment, increase or prepayment.
IsExample(s) ==
  /\ s.purchasePrice = FromInt(500000)
  /\ s.downPayment = FromInt(100000)
  /\ s.downPaymentType = "amount"
  /\ s.interestRate = Fin(550)
  /\ s.amortizationPeriod = FromInt(25)
  /\ s.paymentFrequency = "monthly"
  /\ s.extraPayment = Zero
  /\ s.paymentIncrease = Zero
  /\ s.annualPrepayment = Zero

\* C14, as stated: for the example scenario calculateMortgage reports a
\* principal of 400000 and a monthly payment of about 2452.66 (to the
\* dollar).
C14_ExamplePaymentAsStated ==
  mounted =>
    \A c \in Computed :
      IsExample(c.scenario) =>
        /\ c.result.totalMortgage = FromInt(400000)
        /\ Within(c.result.monthlyPayment, Fin(245266), Q2)

\* C14, amended: for the example scenario calculateMortgage reports a
\* principal of 400000 and a monthly payment of 2456.35 (to two cents).
C14_ExamplePayment ==
  mounted =>
    \A c \in Computed :
      IsExample(c.scenario) =>
        /\ c.result.totalMortgage = FromInt(400000)
        /\ Within(c.result.monthlyPayment, Fin(245635), 2)

\* C14: the example scenario, computed as scenario A on mount.
C14_ExampleComputed ==
  /\ mounted
  /\ IsExample(scenarioA)
  /\ comparison.scenarioA = calculateMortgage(scenarioA)
  /\ IsFin(comparison.scenarioA.monthlyPayment)
  /\ Len(comparison.scenarioA.amortizationSchedule) = 25

\* C15: in every reachable state of the component an engine invocation
\* makes at most amortizationPeriod * paymentsPerYear passes of the payment
\* loop, which is at most 30 * 52 = 1560, and effectiveAmortization is at
\* most amortizationPeriod.
C15_BoundedIterations ==
  /\ \A y \in AMORTIZATION_PERIODS : \A f \in DOMAIN PAYMENT_FREQUENCIES :
       y * PAYMENT_FREQUENCIES[f] <= 30 * 52
  /\ Compared =>
       \A c \in Computed :
         /\ ToNumber(c.scenario.amortizationPeriod) \in
              {FromInt(y) : y \in AMORTIZATION_PERIODS}
         /\ scheduleLoop(c.scenario).lastPaymentNumber
              <= totalPayments(c.scenario)
         /\ Le(c.result.effectiveAmortization,
               ToNumber(c.scenario.amortizationPeriod))

\* C15: scenario A runs the payment loop for every payment of its
\* amortization period, scenario B leaves it earlier.
C15_AllPassesMade ==
  /\ Compared
  /\ edits > 0
  /\ scheduleLoop(scenarioA).lastPaymentNumber = totalPayments(scenarioA)
  /\ comparison.scenarioA.effectiveAmortization =
       ToNumber(scenarioA.amortizationPeriod)
  /\ scheduleLoop(scenarioB).lastPaymentNumber < totalPayments(scenarioB)
  /\ scheduleLoop(scenarioB).lastPaymentNumber > 1

\* Scenario b is scenario a with the accelerated frequency in place of its
\* biweekly or weekly one.
Accelerated(a, b) ==
  /\ \A f \in DOMAIN a : f # "paymentFrequency" => a[f] = b[f]
  /\ \/ a.paymentFrequency = "biweekly"
        /\ b.paymentFrequency = "accelerated_biweekly"
     \/ a.paymentFrequency = "weekly"
        /\ b.paymentFrequency = "accelerated_weekly"

\* C16, as stated: with a positive interest rate the effectiveAmortization
\* under accelerated_biweekly (accelerated_weekly) is strictly smaller than
\* under biweekly (weekly), all other fields equal.
C16_AcceleratedStrictlyFaster ==
  mounted =>
    /\ Accelerated(scenarioA, scenarioB)
       /\ Gt(ToNumber(scenarioA.interestRate), Zero)
         => Gt(comparison.scenarioA.effectiveAmortization,
               comparison.scenarioB.effectiveAmortization)
    /\ Accelerated(scenarioB, scenarioA)
       /\ Gt(ToNumber(scenarioA.interestRate), Zero)
         => Gt(comparison.scenarioB.effectiveAmortization,
               comparison.scenarioA.effectiveAmortization)

\* The scenario has a positive principal and no extra payment, payment
\* increase or annual prepayment.
PlainLoan(s) ==
  /\ Gt(mortgageAmount(s), Zero)
  /\ s.extraPayment = Zero
  /\ s.paymentIncrease = Zero
  /\ s.annualPrepayment = Zero

\* The accelerated scenario of the pair is paid off no later than the
\* other, and sooner when the loan is a plain one.
AcceleratedNoSlower(plain, plainResult, acceleratedResult) ==
  /\ ~Gt(acceleratedResult.effectiveAmortization,
         plainResult.effectiveAmortization)
  /\ PlainLoan(plain) =>
       Gt(plainResult.effectiveAmortization,
          acceleratedResult.effectiveAmortization)

\* C16, amended: with a positive interest rate the effectiveAmortization
\* under accelerated_biweekly (accelerated_weekly) is never greater than
\* under biweekly (weekly), all other fields equal, and is strictly smaller
\* for a positive principal without extra payment, payment increase and
\* annual prepayment.
C16_AcceleratedNoSlower ==
  mounted /\ Gt(ToNumber(scenarioA.interestRate), Zero) =>
    /\ Accelerated(scenarioA, scenarioB) =>
         AcceleratedNoSlower(scenarioA, comparison.scenarioA,
                             comparison.scenarioB)
    /\ Accelerated(scenarioB, scenarioA) =>
         AcceleratedNoSlower(scenarioB, comparison.scenarioB,
                             comparison.scenarioA)

\* C16: a biweekly scenario with an extra payment of 20000 and its
\* accelerated counterpart, both paid off by the same payment.
C16_SamePayoff ==
  /\ mounted
  /\ Accelerated(scenarioA, scenarioB)
  /\ Gt(ToNumber(scenarioA.interestRate), Zero)
  /\ scenarioA.paymentFrequency = "biweekly"
  /\ scenarioA.extraPayment = FromInt(20000)
  /\ Gt(paymentAmount(scenarioB), paymentAmount(scenarioA))
  /\ comparison.scenarioA.effectiveAmortization =
       comparison.scenarioB.effectiveAmortization
  /\ comparison.differences.timeShaved = Zero

\* C17: a change that leaves a field of scenario A or scenario B equal to
\* '' recomputes nothing: comparison.scenarioA, comparison.scenarioB and
\* comparison.differences stay as the last recomputation left them.
C17_NoRecomputeWhileEmpty ==
  [][HasEmpty(scenarioA') \/ HasEmpty(scenarioB') =>
       /\ comparison'.scenarioA = comparison.scenarioA
       /\ comparison'.scenarioB = comparison.scenarioB
       /\ comparison'.differences = comparison.differences]_vars

\* C17: scenario B was changed while a field of scenario A was '': the
\* comparison still holds the results of the initial scenarios.
C17_EditedWhileEmpty ==
  /\ mounted
  /\ HasEmpty(scenarioA)
  /\ ~HasEmpty(scenarioB)
  /\ scenarioB # InitialScenarioB
  /\ comparison.scenarioB = calculateMortgage(InitialScenarioB)
  /\ comparison.scenarioB # calculateMortgage(scenarioB)
  /\ comparison.scenarioA = calculateMortgage(InitialScenarioA)

\* The annual prepayment a year owes: for a positive annualPrepayment and
\* a positive balance the percentage of the original principal, at most the
\* balance; nothing otherwise.
PrepaymentDue(principal, annualPrepayment, balance) ==
  IF Gt(annualPrepayment, Zero) /\ Gt(balance, Zero)
  THEN Min(PercentOf(principal, annualPrepayment), balance)
  ELSE Zero

\* The row of a year is the year's totals before the prepayment (e) with
\* the prepayment taken from the balance and added to principalPaid and
\* extraPayments.
PrepaymentApplied(row, e, amount) ==
  /\ row.endingBalance = Sub(e.balance, amount)
  /\ row.principalPaid = Add(e.principalPaid, amount)
  /\ row.extraPayments = Add(e.extraPayments, amount)

\* Every row of the schedule is its year's totals with the prepayment due
\* applied.
EveryYearPrepaid(rows, yearEnds, principal, annualPrepayment) ==
  /\ Len(yearEnds) = Len(rows)
  /\ \A y \in 1..Len(rows) :
       PrepaymentApplied(
         rows[y], yearEnds[y],
         PrepaymentDue(principal, annualPrepayment, yearEnds[y].balance))

\* C18: at the end of each simulated year, if and only if annualPrepayment
\* > 0 and the balance is > 0, the balance is reduced by
\* min(original principal * annualPrepayment / 100, balance) and the same
\* amount is added to the year's principalPaid and extraPayments.
C18_AnnualPrepayment ==
  mounted =>
    \A c \in Computed :
      EveryYearPrepaid(c.result.amortizationSchedule,
                       scheduleLoop(c.scenario).yearEnds,
                       c.result.totalMortgage,
                       ToNumber(c.scenario.annualPrepayment))

\* C18: a loan with an annual prepayment and no extra payment: the first
\* two years prepay the same percentage of the original principal, the
\* last year prepays less, and scenario A without prepayment prepays
\* nothing.
C18_PrepaidFromOriginalPrincipal ==
  /\ mounted
  /\ scenarioA.interestRate # Zero
  /\ scenarioA.annualPrepayment = Zero
  /\ scenarioA.extraPayment = Zero
  /\ comparison.scenarioA.amortizationSchedule[1].extraPayments = Zero
  /\ scenarioB.annualPrepayment = FromInt(10)
  /\ scenarioB.extraPayment = Zero
  /\ Len(comparison.scenarioB.amortizationSchedule) > 2
  /\ comparison.scenarioB.amortizationSchedule[1].extraPayments =
       PercentOf(comparison.scenarioB.totalMortgage, FromInt(10))
  /\ comparison.scenarioB.amortizationSchedule[2].extraPayments =
       comparison.scenarioB.amortizationSchedule[1].extraPayments
  /\ Gt(comparison.scenarioB.amortizationSchedule[1].extraPayments,
        comparison.scenarioB.amortizationSchedule[
          Len(comparison.scenarioB.amortizationSchedule)].extraPayments)

\* The rows are those of years 1, 2, ..., one each, at most years of
\* them, and no row but the last ends with a balance <= 0.
OrderedRows(rows, simulated, years) ==
  /\ Len(rows) = simulated
  /\ FromInt(Len(rows)) = years \/ Gt(years, FromInt(Len(rows)))
  /\ \A y \in 1..Len(rows) :
       /\ rows[y].year = y
       /\ y < Len(rows) => ~Le(rows[y].endingBalance, Zero)

\* C19: amortizationSchedule has exactly one row per simulated year, with
\* year values 1, 2, ..., k and k <= amortizationPeriod, and no row follows
\* the first row whose endingBalance is <= 0.
C19_OneRowPerYear ==
  mounted =>
    \A c \in Computed :
      OrderedRows(c.result.amortizationSchedule,
                  Len(scheduleLoop(c.scenario).yearEnds),
                  ToNumber(c.scenario.amortizationPeriod))

\* C19: scenario A's schedule runs for the whole amortization period,
\* scenario B's ends early with the row in which the loan is paid off.
C19_ScheduleEndsAtPayoff ==
  /\ mounted
  /\ scenarioA.interestRate # Zero
  /\ Len(comparison.scenarioA.amortizationSchedule) = EngineYears
  /\ Len(comparison.scenarioB.amortizationSchedule) > 1
  /\ Len(comparison.scenarioB.amortizationSchedule) < EngineYears
  /\ Le(comparison.scenarioB.amortizationSchedule[
          Len(comparison.scenarioB.amortizationSchedule)].endingBalance, Zero)

\* The ending balances of the rows are at least 0 and never above the
\* balance before: the principal for row 1, the row before for the others.
BalancesDecrease(rows, principal) ==
  \A y \in 1..Len(rows) :
    /\ Le(Zero, rows[y].endingBalance)
    /\ Le(rows[y].endingBalance,
          IF y = 1 THEN principal ELSE rows[y - 1].endingBalance)

\* C20: for a scenario with non-negative extraPayment, paymentIncrease and
\* annualPrepayment the balance never becomes negative and never
\* increases: 0 <= endingBalance of row y <= endingBalance of row y - 1
\* <= principal for every row of the schedule.
C20_BalanceNeverIncreases ==
  mounted =>
    \A c \in Computed :
      /\ Le(Zero, ToNumber(c.scenario.extraPayment))
      /\ Le(Zero, ToNumber(c.scenario.paymentIncrease))
      /\ Le(Zero, ToNumber(c.scenario.annualPrepayment))
      => BalancesDecrease(c.result.amortizationSchedule,
                          c.result.totalMortgage)

\* C20: a zero-rate accelerated_weekly scenario without prepayments whose
\* first row already ends with a NaN balance.
C20_NaNBalance ==
  /\ mounted
  /\ scenarioA.interestRate = Zero
  /\ scenarioA.paymentFrequency = "accelerated_weekly"
  /\ scenarioA.extraPayment = Zero
  /\ scenarioA.paymentIncrease = Zero
  /\ scenarioA.annualPrepayment = Zero
  /\ Gt(comparison.scenarioA.totalMortgage, Zero)
  /\ IsNaN(comparison.scenarioA.amortizationSchedule[1].endingBalance)

\* C21: the 'Better Option' label names the scenario with the lower
\* totalInterestLifetime: 'Scenario A' is shown only when A's lifetime
\* interest is less than or equal to B's, and 'Scenario B' only when B's is
\* lower than A's.
C21_BetterOptionLowerInterest ==
  /\ BetterOption(comparison) = "Scenario A"
       => Le(comparison.scenarioA.totalInterestLifetime,
             comparison.scenarioB.totalInterestLifetime)
  /\ BetterOption(comparison) = "Scenario B"
       => Gt(comparison.scenarioA.totalInterestLifetime,
             comparison.scenarioB.totalInterestLifetime)

\* C21: the label names Scenario A although Scenario A pays more lifetime
\* interest than Scenario B, both amounts being finite.
C21_LabelNamesCostlier ==
  /\ mounted
  /\ BetterOption(comparison) = "Scenario A"
  /\ IsFin(comparison.scenarioA.totalInterestLifetime)
  /\ IsFin(comparison.scenarioB.totalInterestLifetime)
  /\ Gt(comparison.scenarioA.totalInterestLifetime,
        comparison.scenarioB.totalInterestLifetime)

\* C22: whenever the term-end snapshot is taken (the term is at most the
\* number of schedule rows and the last payment of the term year is
\* applied), balanceAtEndOfTerm equals the endingBalance of the schedule
\* row of year = term, also for scenarios with annualPrepayment > 0.
C22_TermBalanceIsRowBalance ==
  mounted =>
    \A c \in Computed :
      /\ ToNumber(c.scenario.term).v \div Q2
           <= Len(c.result.amortizationSchedule)
      /\ scheduleLoop(c.scenario).applied >= termPayments(c.scenario)
      => c.result.balanceAtEndOfTerm =
           c.result.amortizationSchedule[
             ToNumber(c.scenario.term).v \div Q2].endingBalance

\* C22: scenario B has a positive rate and an annual prepayment, all the
\* payments of its term are applied, and the balance it reports for the
\* end of the term is above the endingBalance of the term year's row.
C22_PrepaidAfterSnapshot ==
  /\ mounted
  /\ scenarioB.interestRate # Zero
  /\ Gt(scenarioB.annualPrepayment, Zero)
  /\ scenarioB.extraPayment = Zero
  /\ scenarioB.paymentFrequency = "monthly"
  /\ scenarioB.downPaymentType = "amount"
  /\ scenarioB.term = FromInt(EngineYears - 2)
  /\ scheduleLoop(scenarioB).applied >= termPayments(scenarioB)
  /\ Len(comparison.scenarioB.amortizationSchedule) >= EngineYears - 2
  /\ IsFin(comparison.scenarioB.balanceAtEndOfTerm)
  /\ Gt(comparison.scenarioB.balanceAtEndOfTerm,
        comparison.scenarioB.amortizationSchedule[EngineYears - 2].endingBalance)

\* C23: in every reachable state each numeric field of each scenario holds
\* a number or the empty placeholder '', never a non-empty string.
C23_NumericFieldsAreNumbers ==
  \A s \in {scenarioA, scenarioB} :
    \A f \in NumericFields : IsNumber(s[f]) \/ s[f] = Empty

\* C23: the interest rate of scenario A was cleared and retyped; it is
\* stored as the non-empty string typed, the engine's interestRate === 0
\* test has not recognised it as zero, and the payment computed is NaN.
C23_RetypedStoredAsString ==
  /\ mounted
  /\ ~IsNumber(scenarioA.interestRate)
  /\ scenarioA.interestRate # Empty
  /\ ToNumber(scenarioA.interestRate) = Zero
  /\ ~HasEmpty(scenarioA)
  /\ ~HasEmpty(scenarioB)
  /\ IsNaN(comparison.scenarioA.monthlyPayment)

\* C24: with a positive purchasePrice and a down payment amount within it,
\* switching downPaymentType from 'amount' to 'percent' and back to
\* 'amount', with no other edit in between, restores the downPayment, so
\* that the down-payment amount and the principal financed are unchanged.
C24_ToggleRoundTrip ==
  \A s \in {scenarioA, scenarioB} :
    /\ s.downPaymentType = "amount"
    /\ IsNumber(s.purchasePrice)
    /\ IsNumber(s.downPayment)
    /\ Gt(s.purchasePrice, Zero)
    /\ Le(Zero, s.downPayment)
    /\ Le(s.downPayment, s.purchasePrice)
    /\ ~HasEmpty(s)
    => /\ ToggledAndBack(s).downPayment = s.downPayment
       /\ mortgageAmount(ToggledAndBack(s)) = mortgageAmount(s)

\* C24: scenario A had a price of 300000 and a down payment of 100000; the
\* type was switched to 'percent' and back, and the down payment is 99000.
C24_ToggledAmountChanged ==
  /\ mounted
  /\ edits = 3
  /\ scenarioA.downPaymentType = "amount"
  /\ scenarioA.purchasePrice = FromInt(300000)
  /\ scenarioA.downPayment = FromInt(99000)
  /\ comparison.scenarioA.totalMortgage = FromInt(201000)

====
